---- MODULE Spec2Model ----
(***************************************************************************)
(* Model of SetupService (src/backend/src/modules/selfhosted/              *)
(* SetupService.js): the first-run setup wizard service.                   *)
(*                                                                         *)
(* JavaScript values are encoded as strings: Undefined, Null, JsTrue and   *)
(* JsFalse stand for undefined, null, true and false; every other string   *)
(* is itself.  A token is a natural number, 0 standing for "no token"      *)
(* (null in memory, no file on disk, no token in the request).             *)
(*                                                                         *)
(* Every `await` of the source is a suspension point: an action is the     *)
(* code that runs between two awaits of one request.                       *)
(***************************************************************************)
EXTENDS Integers, Sequences, FiniteSets, TLC

\* ---------------------------------------------------------------- bounds
MaxToken == 2        \* token values: 1..MaxToken, generated in this order
MaxSteps == 4        \* registry length up to which steps are registered

\* Two requests are handled at a time: the concurrent double submission of
\* the source's request-per-invocation scheduling.
Reqs   == {"r1", "r2"}
Tokens == 1..MaxToken

\* ------------------------------------------------------- JavaScript values
Undefined == "undefined"
Null      == "null"
JsTrue    == "true"
JsFalse   == "false"

Truthy(v) == v \notin {Undefined, Null, JsFalse, ""}
JsBool(b) == IF b THEN JsTrue ELSE JsFalse

\* ------------------------------------------------------------ deltas
\* A configuration object is a function from a finite set of keys to values.
EmptyDelta == [k \in {} |-> Undefined]

\* { ...a, ...b } and Object.assign(a, b)
Merge(a, b) ==
  [k \in (DOMAIN a) \cup (DOMAIN b) |-> IF k \in DOMAIN b THEN b[k] ELSE a[k]]

\* obj[key] of a plain object: undefined when the key is absent
Get(obj, k) == IF k \in DOMAIN obj THEN obj[k] ELSE Undefined

\* JSON.stringify(newConfig, null, 2): a key whose value is undefined is dropped
JsonOf(obj) ==
  [k \in {x \in DOMAIN obj : obj[x] # Undefined} |-> obj[k]]

\* ------------------------------------------------------------ inputs
\* Submitted bodies (req.body without the token).
BodySpec ==
  [subdomainBehavior |-> "disabled", useNipIo |-> Undefined,
   domainName |-> "example.com", adminPassword |-> "secretpw"]
BodyNoPassword ==
  [subdomainBehavior |-> "disabled", useNipIo |-> Undefined,
   domainName |-> "example.com", adminPassword |-> ""]
Bodies == {BodySpec, BodyNoPassword}

\* Further bodies: a password of white space only with the nip.io domain
\* asked for and subdomains enabled, and a body without any of the fields.
BodyBlank ==
  [subdomainBehavior |-> "enabled", useNipIo |-> JsTrue,
   domainName |-> Undefined, adminPassword |-> " "]
BodyEmpty ==
  [subdomainBehavior |-> Undefined, useNipIo |-> Undefined,
   domainName |-> Undefined, adminPassword |-> Undefined]
AllBodies == Bodies \cup {BodyBlank, BodyEmpty}
NoBody ==
  [subdomainBehavior |-> Undefined, useNipIo |-> Undefined,
   domainName |-> Undefined, adminPassword |-> Undefined]

\* req.ip of the submitting client, and `${req.ip.replace(/\./g, "-")}.nip.io`
ReqIp == "10.0.0.1"
NipIo(ip) ==
  CASE ip = "10.0.0.1"  -> "10-0-0-1.nip.io"
    [] ip = "127.0.0.1" -> "127-0-0-1.nip.io"
    [] OTHER            -> Undefined

\* ------------------------------------------------------------ steps
\* A registered step: the fields of the registry entry that the pipeline
\* reads (id, order) and the name of its process function.
NoStep == [id |-> "", order |-> 0, proc |-> "none", declared |-> 0, seq |-> 0]

\* A step definition as it is handed to registerConfigStep: proc names its
\* process function, Undefined when there is none; title and template are
\* Undefined when they are missing.
StepDef(id, order, proc) ==
  [id |-> id, order |-> order, proc |-> proc, title |-> "title",
   template |-> "template"]

SubdomainStep     == StepDef("subdomain", 10, "subdomain")
DomainStep        == StepDef("domain", 20, "domain")
AdminPasswordStep == StepDef("adminPassword", 30, "adminPassword")

\* The step an extension registers: its process "custom" returns one
\* unrelated key or throws.
ExtensionSteps ==
  { StepDef("extra", 15, "custom") }
CustomDelta == [k \in {"unrelated_key"} |-> "x"]

\* The process "override" returns the key of the domain step with another
\* value.
OverrideDelta == [k \in {"domain"} |-> "override.example"]

\* Step definitions that lack id, title, template or process
MalformedSteps ==
  { [StepDef("extra", 15, "custom") EXCEPT !.id = ""],
    [StepDef("extra", 15, "custom") EXCEPT !.title = Undefined],
    [StepDef("extra", 15, "custom") EXCEPT !.template = Undefined],
    [StepDef("extra", 15, "custom") EXCEPT !.proc = Undefined] }

\* step.order || 999
OrderOf(o) == IF o = 0 THEN 999 ELSE o

\* Array.prototype.sort((a, b) => a.order - b.order): a stable sort
RECURSIVE InsertByOrder(_, _)
InsertByOrder(sorted, s) ==
  IF sorted = <<>> THEN <<s>>
  ELSE IF sorted[Len(sorted)].order <= s.order
       THEN Append(sorted, s)
       ELSE Append(InsertByOrder(SubSeq(sorted, 1, Len(sorted) - 1), s),
                   sorted[Len(sorted)])

RECURSIVE SortByOrder(_)
SortByOrder(seq) ==
  IF seq = <<>> THEN <<>>
  ELSE InsertByOrder(SortByOrder(SubSeq(seq, 1, Len(seq) - 1)), seq[Len(seq)])

\* registerConfigStep, lines 1754-1758: the definition is refused with an
\* Error before anything is done
registerThrows(step) ==
  \/ ~Truthy(step.id)
  \/ ~Truthy(step.title)
  \/ ~Truthy(step.template)
  \/ ~Truthy(step.proc)

\* mutant: the entry is pushed and sorted before the definition is looked at
registerConfigStep_PushesFirst(registry, step) ==
  SortByOrder(Append(registry,
      [id |-> step.id, order |-> OrderOf(step.order), proc |-> step.proc,
       declared |-> step.order, seq |-> Len(registry) + 1]))

\* registerConfigStep: push the entry, then sort the registry.  An entry also
\* carries its history: declared is the order the step was registered with,
\* seq says that it was the seq-th entry pushed.
registerConfigStep(registry, step) ==
  IF registerThrows(step) THEN registry
  ELSE SortByOrder(Append(registry,
      [id |-> step.id, order |-> OrderOf(step.order), proc |-> step.proc,
       declared |-> step.order, seq |-> Len(registry) + 1]))

\* registerDefaultConfigSteps
registerDefaultConfigSteps(registry) ==
  registerConfigStep(
    registerConfigStep(
      registerConfigStep(registry, SubdomainStep), DomainStep),
    AdminPasswordStep)

\* requiresRestart(newConfig)
restartRequiredOptions ==
  {"domain", "experimental_no_subdomain", "http_port", "api_base_url", "origin"}

\* mutant: only the first option of the list is looked for
requiresRestart_FirstOptionOnly(newConfig) ==
  "domain" \in DOMAIN newConfig

\* mutant: an option counts only when its value is truthy
requiresRestart_TruthyOptionsOnly(newConfig) ==
  \E option \in restartRequiredOptions :
    option \in DOMAIN newConfig /\ Truthy(newConfig[option])

\* the for..of loop returns true at the first option that is `in newConfig`
requiresRestart(newConfig) ==
  \E option \in restartRequiredOptions : option \in DOMAIN newConfig

\* ------------------------------------------------------------ state
VARIABLES
  phase,             \* "constructed", "initialized" (_init ran), "serving"
  setupCompleted,    \* this.setupCompleted
  configSteps,       \* this.configSteps
  setupToken,        \* the closure variable setupToken of __on_install.routes
  rootInstalled,     \* the root handler and the redirect middleware exist
  markerFile,        \* config/setup-completed exists
  tokenFile,         \* content of config/setup-token, 0 when the file is absent
  adminPasswordFile, \* content of config/admin-password, Undefined when absent
  wizardConfigFile,  \* object stored in config/wizard-config.json
  appConfig,         \* require("../../config"), the live configuration
  adminCredential,   \* password of user "admin" in the user directory
  passwordLogFile,   \* password written to config/admin-password-log.txt
  nextToken,         \* the next value crypto.randomBytes yields
  tokenRemovals,     \* history: how often config/setup-token was deleted
  overlapped,        \* history: the requests being handled were in their
                     \* handlers at the same time
  registerThrew,     \* history: the last call of registerConfigStep by an
                     \* extension threw
  restartAnswer,     \* history: the argument's keys and the result of the
                     \* last direct call of requiresRestart
  reqs               \* the requests being handled

vars == <<phase, setupCompleted, configSteps, setupToken, rootInstalled,
          markerFile, tokenFile, adminPasswordFile, wizardConfigFile,
          appConfig, adminCredential, passwordLogFile, nextToken, tokenRemovals,
          overlapped, registerThrew, restartAnswer, reqs>>

histVars == <<overlapped, registerThrew, restartAnswer>>
memVars  == <<phase, setupCompleted, configSteps, setupToken, rootInstalled>>
diskVars == <<markerFile, tokenFile, adminPasswordFile, wizardConfigFile>>
extVars  == <<adminCredential, passwordLogFile>>

\* No direct call of requiresRestart yet
NoAnswer == [keys |-> {}, result |-> "none"]

\* ------------------------------------------------------------ requests
NoResp == [status |-> 0, message |-> "", requiresRestart |-> FALSE]

MsgSuccess      == "Setup completed successfully"
MsgPipelineFail == "Failed to complete setup"
MsgConfigFail   == "Failed to update configuration"
MsgFlagFail     == "Failed to mark setup as completed"
MsgReset        == "Configuration reset. Setup wizard will be displayed on next visit."
MsgResetFail    == "Failed to reset configuration"
TokenPagePath   == "/__setup/token"

Redirect(target) == [status |-> 302, message |-> target, requiresRestart |-> FALSE]
Failure(msg)     == [status |-> 500, message |-> msg, requiresRestart |-> FALSE]
Success(msg, restart) ==
  [status |-> 200, message |-> msg, requiresRestart |-> restart]

\* One request: where its handler stands (pc), what was submitted (path,
\* method, body; of the token, tokenMatches: it is non-empty and equal to
\* setupToken), the locals of processConfigSteps (idx, step, config,
\* adminPassword), its response, and its history: stages holds the stages
\* the handler has entered, invoked the ids of the steps whose process it
\* has called, sidecar the argument it passed to markSetupCompleted,
\* responses how many responses were sent for it.
IdleReq ==
  [pc |-> "idle", path |-> "", method |-> "", tokenMatches |-> FALSE,
   body |-> NoBody,
   idx |-> 0, step |-> NoStep, config |-> EmptyDelta, adminPassword |-> Null,
   resp |-> NoResp, stages |-> <<>>, invoked |-> <<>>, sidecar |-> Undefined,
   responses |-> 0]

\* The handler has answered and returned: its locals are gone, the request
\* and its history stay until the request is released.
Respond(req, resp) ==
  [IdleReq EXCEPT !.pc = "done", !.path = req.path, !.method = req.method,
                  !.tokenMatches = req.tokenMatches, !.resp = resp,
                  !.stages = req.stages,
                  !.invoked = req.invoked, !.sidecar = req.sidecar,
                  !.responses = req.responses + 1]

\* The service has been constructed (_construct) on a fresh installation:
\* nothing is persisted yet.
Init ==
  /\ phase = "constructed"
  /\ setupCompleted = FALSE
  /\ configSteps = <<>>
  /\ setupToken = 0
  /\ rootInstalled = FALSE
  /\ markerFile = FALSE
  /\ tokenFile = 0
  /\ adminPasswordFile = Undefined
  /\ wizardConfigFile = EmptyDelta
  /\ appConfig = EmptyDelta
  /\ adminCredential = Undefined
  /\ passwordLogFile = Undefined
  /\ nextToken = 1
  /\ tokenRemovals = 0
  /\ overlapped = FALSE
  /\ registerThrew = FALSE
  /\ restartAnswer = NoAnswer
  /\ reqs = [r \in Reqs |-> IdleReq]

\* ------------------------------------------------------------ boot
\* isSetupCompleted: fs.access of the marker succeeds
isSetupCompleted == markerFile

\* _init: register the default steps, read the completion marker
InitHook ==
  /\ phase = "constructed"
  /\ configSteps' = registerDefaultConfigSteps(configSteps)
  /\ setupCompleted' = isSetupCompleted
  /\ phase' = "initialized"
  /\ UNCHANGED <<setupToken, rootInstalled, diskVars, appConfig, extVars,
                 nextToken, tokenRemovals, reqs>>
  /\ UNCHANGED histVars

\* An extension registers a step at process start, before the routes are
\* installed.
RegisterExtension ==
  /\ phase = "initialized"
  /\ Len(configSteps) < MaxSteps
  /\ \E step \in ExtensionSteps :
       /\ configSteps' = registerConfigStep(configSteps, step)
       /\ registerThrew' = registerThrows(step)
  /\ UNCHANGED <<phase, setupCompleted, setupToken, rootInstalled, diskVars,
                 appConfig, extVars, nextToken, tokenRemovals, reqs>>
  /\ UNCHANGED <<overlapped, restartAnswer>>

\* An extension registers a step at process start, also with a definition
\* that lacks a required field.
RegisterAny ==
  /\ phase = "initialized"
  /\ Len(configSteps) < MaxSteps
  /\ \E step \in ExtensionSteps \cup MalformedSteps :
       /\ configSteps' = registerConfigStep(configSteps, step)
       /\ registerThrew' = registerThrows(step)
  /\ UNCHANGED <<phase, setupCompleted, setupToken, rootInstalled, diskVars,
                 appConfig, extVars, nextToken, tokenRemovals, reqs>>
  /\ UNCHANGED <<overlapped, restartAnswer>>

\* The steps extensions register in the study of the registry: a new id
\* with a negative order, order 0, an order between two default steps and
\* the order of a default step, the id of a default step again with
\* another process, and a step that returns the key of a default step.
RegistrySteps ==
  { StepDef("extra", o, "custom") : o \in {-5, 0, 15, 20} }
    \cup { StepDef("domain", 20, "custom"), StepDef("override", 25, "override") }

\* registerConfigStep called by an extension with one of these steps
RegisterStep ==
  /\ phase = "initialized"
  /\ Len(configSteps) < MaxSteps
  /\ \E step \in RegistrySteps :
       /\ configSteps' = registerConfigStep(configSteps, step)
       /\ registerThrew' = registerThrows(step)
  /\ UNCHANGED <<phase, setupCompleted, setupToken, rootInstalled, diskVars,
                 appConfig, extVars, nextToken, tokenRemovals, overlapped,
                 restartAnswer, reqs>>

\* __on_install.routes, lines 161-195: load the persisted token, generate and
\* persist one when none was loaded.  readOk, genOk and writeOk say whether
\* readFileSync, randomBytes and writeFileSync return or throw.
LoadedToken(file, readOk) == IF file # 0 /\ readOk THEN file ELSE 0

EnsureToken(file, fresh, readOk, genOk, writeOk) ==
  LET loaded == LoadedToken(file, readOk) IN
  IF loaded # 0 THEN [token |-> loaded, file |-> file, generated |-> FALSE]
  ELSE IF ~genOk THEN [token |-> 0, file |-> file, generated |-> FALSE]
  ELSE [token |-> fresh, file |-> IF writeOk THEN fresh ELSE file,
        generated |-> TRUE]

\* __on_install.routes: the token, then the routes; the root handler and the
\* redirect middleware only when setup is not completed
InstallRoutes ==
  /\ phase = "initialized"
  /\ \E readOk, genOk, writeOk \in BOOLEAN :
       LET t == EnsureToken(tokenFile, nextToken, readOk, genOk, writeOk) IN
       /\ t.generated => nextToken <= MaxToken
       /\ setupToken' = t.token
       /\ tokenFile' = t.file
       /\ nextToken' = IF t.generated THEN nextToken + 1 ELSE nextToken
  /\ rootInstalled' = ~setupCompleted
  /\ phase' = "serving"
  /\ UNCHANGED <<setupCompleted, configSteps, markerFile, adminPasswordFile,
                 wizardConfigFile, appConfig, extVars, tokenRemovals, reqs>>
  /\ UNCHANGED histVars

\* ------------------------------------------------------------ the gate
\* req.query.token || req.body.token
SuppliedToken(query, body) == IF query # 0 THEN query ELSE body

\* line 229: !token || token !== setupToken
TokenMatches(token) == ~(token = 0 \/ token # setupToken)

\* mutant: a GET of the root skips the verification whether or not setup is
\* completed
verifySetupToken_RootAlwaysSkips(path, method, token) ==
  IF path = "/__setup/token" THEN "next"
  ELSE IF path = "/__setup/reset-instructions" THEN "next"
  ELSE IF path = "/__setup" /\ method = "GET" THEN "next"
  ELSE IF path = "/" /\ method = "GET" THEN "next"
  ELSE IF ~TokenMatches(token) THEN "redirect"
  ELSE "next"

\* verifySetupToken: "next" calls the route handler, "redirect" answers
\* res.redirect("/__setup/token")
verifySetupToken(path, method, token) ==
  IF path = "/__setup/token" THEN "next"
  ELSE IF path = "/__setup/reset-instructions" THEN "next"
  ELSE IF path = "/__setup" /\ method = "GET" THEN "next"
  ELSE IF path = "/" /\ method = "GET" /\ ~setupCompleted THEN "next"
  ELSE IF ~TokenMatches(token) THEN "redirect"
  ELSE "next"

\* ------------------------------------------------------------ the pipeline
\* String.prototype.trim on the passwords of the model
Trim(v) == IF v = " " THEN "" ELSE v

\* process of the three default steps: the object each returns
processSubdomain(data) ==
  [k \in {"experimental_no_subdomain"} |->
     JsBool(data.subdomainBehavior = "disabled")]
processDomain(data, ip) ==
  [k \in {"domain"} |->
     IF Truthy(data.useNipIo) THEN NipIo(ip) ELSE data.domainName]
processAdminPassword(data) == EmptyDelta

StepConfig(step, data) ==
  CASE step.proc = "subdomain"     -> processSubdomain(data)
    [] step.proc = "domain"        -> processDomain(data, ReqIp)
    [] step.proc = "adminPassword" -> processAdminPassword(data)
    [] step.proc = "override"      -> OverrideDelta
    [] OTHER                       -> CustomDelta

\* The adminPassword process calls updateAdminPassword when the submitted
\* password is non-blank.  The call throws before the update ("failed") or
\* updates the credential and writes the password log ("updated"); the
\* process swallows a throw.
AdminUpdateOutcomes(step, data) ==
  IF /\ step.proc = "adminPassword"
     /\ Truthy(data.adminPassword)
     /\ Trim(data.adminPassword) # ""
  THEN {"updated", "failed"}
  ELSE {"skipped"}

\* processConfigSteps, lines 1807-1813: the loop is over
WithAdminPassword(config, adminPassword) ==
  IF Truthy(adminPassword)
  THEN Merge(config, [k \in {"__adminPassword"} |-> adminPassword])
  ELSE config

\* mutant: the process of the following step is called without awaiting
\* the one just called
LoopHead_StartsNextToo(req, i) ==
  IF i < Len(configSteps)
  THEN [req EXCEPT !.pc = "inStep", !.idx = i, !.step = configSteps[i],
                   !.invoked = Append(Append(@, configSteps[i].id),
                                      configSteps[i + 1].id)]
  ELSE IF i = Len(configSteps)
  THEN [req EXCEPT !.pc = "inStep", !.idx = i, !.step = configSteps[i],
                   !.invoked = Append(@, configSteps[i].id)]
  ELSE [req EXCEPT !.pc = "pipelineReturned", !.idx = i, !.step = NoStep,
                   !.config = WithAdminPassword(req.config, req.adminPassword)]

\* mutant: the loop is left before the last step
LoopHead_LeavesEarly(req, i) ==
  IF i < Len(configSteps)
  THEN [req EXCEPT !.pc = "inStep", !.idx = i, !.step = configSteps[i],
                   !.invoked = Append(@, configSteps[i].id)]
  ELSE [req EXCEPT !.pc = "pipelineReturned", !.idx = i, !.step = NoStep,
                   !.config = WithAdminPassword(req.config, req.adminPassword)]

\* processConfigSteps, the head of the for..of loop at index i: call the
\* process of the next step and await it, or leave the loop and return config
LoopHead(req, i) ==
  IF i <= Len(configSteps)
  THEN [req EXCEPT !.pc = "inStep", !.idx = i, !.step = configSteps[i],
                   !.invoked = Append(@, configSteps[i].id)]
  ELSE [req EXCEPT !.pc = "pipelineReturned", !.idx = i, !.step = NoStep,
                   !.config = WithAdminPassword(req.config, req.adminPassword)]

\* POST /__setup/configure arrives: the endpoint has no middleware, the
\* handler calls processConfigSteps(req.body, req)
Submit(r, bodies) ==
  /\ phase = "serving"
  /\ reqs[r].pc = "idle"
  /\ \E query, btoken \in 0..MaxToken, body \in bodies :
       LET req == [IdleReq EXCEPT !.path = "/__setup/configure",
                                  !.method = "POST",
                                  !.tokenMatches =
                                     TokenMatches(SuppliedToken(query, btoken)),
                                  !.body = body,
                                  !.stages = <<"pipeline">>]
       IN reqs' = [reqs EXCEPT ![r] = LoopHead(req, 1)]
  /\ UNCHANGED <<memVars, diskVars, appConfig, extVars, nextToken, tokenRemovals>>
  /\ overlapped' = \E q \in Reqs \ {r} : reqs[q].pc \notin {"idle", "done"}
  /\ UNCHANGED <<registerThrew, restartAnswer>>

\* a submission with one of the two usual bodies
ConfigureArrive(r) == Submit(r, Bodies)

\* a submission with any of the bodies
ConfigureArriveAny(r) == Submit(r, AllBodies)

\* mutant: the catch of a throwing step applies what the earlier steps
\* returned to the live configuration
StepThrows_CommitsPartial(r) ==
  /\ reqs[r].pc = "inStep"
  /\ reqs[r].step.proc = "custom"
  /\ reqs' = [reqs EXCEPT ![r] = Respond(reqs[r], Failure(MsgPipelineFail))]
  /\ appConfig' = Merge(appConfig, reqs[r].config)
  /\ UNCHANGED <<memVars, diskVars, extVars, nextToken, tokenRemovals,
                 histVars>>

\* mutant: the catch of a throwing step also removes the persisted token
StepThrows_RemovesToken(r) ==
  /\ reqs[r].pc = "inStep"
  /\ reqs[r].step.proc = "custom"
  /\ reqs' = [reqs EXCEPT ![r] = Respond(reqs[r], Failure(MsgPipelineFail))]
  /\ tokenFile' = 0
  /\ UNCHANGED <<memVars, markerFile, adminPasswordFile, wizardConfigFile,
                 appConfig, extVars, nextToken, tokenRemovals>>
  /\ UNCHANGED histVars

\* mutant: the outer catch of the handler logs and sends nothing
StepThrows_SendsNothing(r) ==
  /\ reqs[r].pc = "inStep"
  /\ reqs[r].step.proc = "custom"
  /\ reqs' = [reqs EXCEPT ![r].pc = "returned", ![r].step = NoStep]
  /\ UNCHANGED <<memVars, diskVars, appConfig, extVars, nextToken, tokenRemovals>>
  /\ UNCHANGED histVars

\* the awaited process throws: processConfigSteps rethrows, the handler's
\* outer catch answers 500
StepThrows(r) ==
  /\ reqs[r].pc = "inStep"
  /\ reqs[r].step.proc = "custom"
  /\ reqs' = [reqs EXCEPT ![r] = Respond(reqs[r], Failure(MsgPipelineFail))]
  /\ UNCHANGED <<memVars, diskVars, appConfig, extVars, nextToken, tokenRemovals>>
  /\ UNCHANGED histVars

\* mutant: the adminPassword process lets the throw of updateAdminPassword
\* through, and the run fails
StepReturns_FailedUpdateThrows(r) ==
  /\ reqs[r].pc = "inStep"
  /\ LET req  == reqs[r]
         step == req.step
         data == req.body
     IN \E outcome \in AdminUpdateOutcomes(step, data) :
          LET captured == IF step.id = "adminPassword" /\ Truthy(data.adminPassword)
                          THEN data.adminPassword ELSE req.adminPassword
              merged   == [req EXCEPT !.adminPassword = captured,
                                      !.config = Merge(@, StepConfig(step, data))]
          IN /\ reqs' = [reqs EXCEPT ![r] =
                           IF outcome = "failed"
                           THEN Respond(req, Failure(MsgPipelineFail))
                           ELSE LoopHead(merged, req.idx + 1)]
             /\ adminCredential' = IF outcome = "updated"
                                   THEN data.adminPassword ELSE adminCredential
             /\ passwordLogFile' = IF outcome = "updated"
                                   THEN data.adminPassword ELSE passwordLogFile
  /\ UNCHANGED <<memVars, diskVars, appConfig, nextToken, tokenRemovals>>
  /\ UNCHANGED histVars

\* mutant: the password is captured only when updateAdminPassword returned
StepReturns_CapturesOnUpdate(r) ==
  /\ reqs[r].pc = "inStep"
  /\ LET req  == reqs[r]
         step == req.step
         data == req.body
     IN \E outcome \in AdminUpdateOutcomes(step, data) :
          LET captured == IF step.id = "adminPassword" /\ outcome = "updated"
                          THEN data.adminPassword ELSE req.adminPassword
              merged   == [req EXCEPT !.adminPassword = captured,
                                      !.config = Merge(@, StepConfig(step, data))]
          IN /\ reqs' = [reqs EXCEPT ![r] = LoopHead(merged, req.idx + 1)]
             /\ adminCredential' = IF outcome = "updated"
                                   THEN data.adminPassword ELSE adminCredential
             /\ passwordLogFile' = IF outcome = "updated"
                                   THEN data.adminPassword ELSE passwordLogFile
  /\ UNCHANGED <<memVars, diskVars, appConfig, nextToken, tokenRemovals>>
  /\ UNCHANGED histVars

\* the awaited process returns: capture the password, merge, go on
StepReturns(r) ==
  /\ reqs[r].pc = "inStep"
  /\ LET req  == reqs[r]
         step == req.step
         data == req.body
     IN \E outcome \in AdminUpdateOutcomes(step, data) :
          LET captured == IF step.id = "adminPassword" /\ Truthy(data.adminPassword)
                          THEN data.adminPassword ELSE req.adminPassword
              merged   == [req EXCEPT !.adminPassword = captured,
                                      !.config = Merge(@, StepConfig(step, data))]
          IN /\ reqs' = [reqs EXCEPT ![r] = LoopHead(merged, req.idx + 1)]
             /\ adminCredential' = IF outcome = "updated"
                                   THEN data.adminPassword ELSE adminCredential
             /\ passwordLogFile' = IF outcome = "updated"
                                   THEN data.adminPassword ELSE passwordLogFile
  /\ UNCHANGED <<memVars, diskVars, appConfig, nextToken, tokenRemovals>>
  /\ UNCHANGED histVars

\* ------------------------------------------------------------ updateConfig
\* the handler resumes after the pipeline and calls updateConfig:
\* Object.assign(config, newConfig), then the awaits of mkdir and writeFile
UpdateConfigAssigns(r) ==
  /\ reqs[r].pc = "pipelineReturned"
  /\ appConfig' = Merge(appConfig, reqs[r].config)
  /\ reqs' = [reqs EXCEPT ![r].pc = "commitWrite",
                          ![r].stages = Append(@, "configCommit")]
  /\ UNCHANGED <<memVars, diskVars, extVars, nextToken, tokenRemovals>>
  /\ UNCHANGED histVars

\* mutant: a failed configuration write still writes the completion marker
UpdateConfigFails_Marks(r) ==
  /\ reqs[r].pc = "commitWrite"
  /\ reqs' = [reqs EXCEPT ![r] = Respond(reqs[r], Failure(MsgConfigFail))]
  /\ markerFile' = TRUE
  /\ UNCHANGED <<memVars, tokenFile, adminPasswordFile, wizardConfigFile,
                 appConfig, extVars, nextToken, tokenRemovals>>
  /\ UNCHANGED histVars

\* mutant: the catch of updateConfig takes the keys of the delta out of the
\* live configuration again
UpdateConfigFails_RollsBack(r) ==
  /\ reqs[r].pc = "commitWrite"
  /\ reqs' = [reqs EXCEPT ![r] = Respond(reqs[r], Failure(MsgConfigFail))]
  /\ appConfig' = [k \in DOMAIN appConfig \ DOMAIN reqs[r].config |->
                     appConfig[k]]
  /\ UNCHANGED <<memVars, diskVars, extVars, nextToken, tokenRemovals>>
  /\ UNCHANGED histVars

\* writeFile of wizard-config.json throws: updateConfig rethrows, the handler
\* answers 500
UpdateConfigFails(r) ==
  /\ reqs[r].pc = "commitWrite"
  /\ reqs' = [reqs EXCEPT ![r] = Respond(reqs[r], Failure(MsgConfigFail))]
  /\ UNCHANGED <<memVars, diskVars, appConfig, extVars, nextToken, tokenRemovals>>
  /\ UNCHANGED histVars

\* mutant: the handler goes on to the token removal without calling
\* markSetupCompleted
UpdateConfigWrites_SkipsMark(r) ==
  /\ reqs[r].pc = "commitWrite"
  /\ wizardConfigFile' = JsonOf(reqs[r].config)
  /\ reqs' = [reqs EXCEPT ![r].pc = "markReturned"]
  /\ UNCHANGED <<memVars, markerFile, tokenFile, adminPasswordFile, appConfig,
                 extVars, nextToken, tokenRemovals>>
  /\ UNCHANGED histVars

\* writeFile of wizard-config.json returns; the handler then calls
\* markSetupCompleted(config.__adminPassword), which awaits mkdir and the
\* write of the marker
UpdateConfigWrites(r) ==
  /\ reqs[r].pc = "commitWrite"
  /\ wizardConfigFile' = JsonOf(reqs[r].config)
  /\ reqs' = [reqs EXCEPT ![r].pc = "markerWrite",
                          ![r].stages = Append(@, "flagCommit"),
                          ![r].sidecar = Get(reqs[r].config, "__adminPassword")]
  /\ UNCHANGED <<memVars, markerFile, tokenFile, adminPasswordFile, appConfig,
                 extVars, nextToken, tokenRemovals>>
  /\ UNCHANGED histVars

\* ------------------------------------------------------------ markSetupCompleted
\* mutant: the catch of a failed marker write clears the in-memory flag
MarkerWriteFails_ClearsFlag(r) ==
  /\ reqs[r].pc = "markerWrite"
  /\ reqs' = [reqs EXCEPT ![r] = Respond(reqs[r], Failure(MsgFlagFail))]
  /\ setupCompleted' = FALSE
  /\ UNCHANGED <<phase, configSteps, setupToken, rootInstalled, diskVars,
                 appConfig, extVars, nextToken, tokenRemovals>>
  /\ UNCHANGED histVars

\* mutant: the catch of a failed marker write removes the persisted token
MarkerWriteFails_RemovesToken(r) ==
  /\ reqs[r].pc = "markerWrite"
  /\ reqs' = [reqs EXCEPT ![r] = Respond(reqs[r], Failure(MsgFlagFail))]
  /\ tokenFile' = 0
  /\ UNCHANGED <<memVars, markerFile, adminPasswordFile, wizardConfigFile,
                 appConfig, extVars, nextToken, tokenRemovals>>
  /\ UNCHANGED histVars

\* writeFile of the marker throws: markSetupCompleted rethrows, the handler
\* answers 500
MarkerWriteFails(r) ==
  /\ reqs[r].pc = "markerWrite"
  /\ reqs' = [reqs EXCEPT ![r] = Respond(reqs[r], Failure(MsgFlagFail))]
  /\ UNCHANGED <<memVars, diskVars, appConfig, extVars, nextToken, tokenRemovals>>
  /\ UNCHANGED histVars

\* writeFile of the marker returns; with a password the write of
\* admin-password is awaited next, without one the flag is set
MarkerWrites(r) ==
  /\ reqs[r].pc = "markerWrite"
  /\ markerFile' = TRUE
  /\ IF Truthy(reqs[r].sidecar)
     THEN /\ reqs' = [reqs EXCEPT ![r].pc = "sidecarWrite"]
          /\ UNCHANGED setupCompleted
     ELSE /\ reqs' = [reqs EXCEPT ![r].pc = "markReturned"]
          /\ setupCompleted' = TRUE
  /\ UNCHANGED <<phase, configSteps, setupToken, rootInstalled, tokenFile,
                 adminPasswordFile, wizardConfigFile, appConfig, extVars,
                 nextToken, tokenRemovals>>
  /\ UNCHANGED histVars

\* writeFile of admin-password throws: same catch as the marker's
SidecarWriteFails(r) ==
  /\ reqs[r].pc = "sidecarWrite"
  /\ reqs' = [reqs EXCEPT ![r] = Respond(reqs[r], Failure(MsgFlagFail))]
  /\ UNCHANGED <<memVars, diskVars, appConfig, extVars, nextToken, tokenRemovals>>
  /\ UNCHANGED histVars

\* writeFile of admin-password returns; the flag is set
SidecarWrites(r) ==
  /\ reqs[r].pc = "sidecarWrite"
  /\ adminPasswordFile' = reqs[r].sidecar
  /\ setupCompleted' = TRUE
  /\ reqs' = [reqs EXCEPT ![r].pc = "markReturned"]
  /\ UNCHANGED <<phase, configSteps, setupToken, rootInstalled, markerFile,
                 tokenFile, wizardConfigFile, appConfig, extVars, nextToken, tokenRemovals>>
  /\ UNCHANGED histVars

\* ------------------------------------------------------------ the rest of the handler
\* lines 372-380: if (setupToken) unlinkSync(tokenPath), errors caught.
\* unlinkOk says whether unlinkSync of an existing file returns or throws;
\* for a missing file it throws ENOENT.
TokenFileAfterRemoval(memToken, file, unlinkOk) ==
  IF memToken # 0 /\ file # 0 /\ unlinkOk THEN 0 ELSE file

\* mutant: the ENOENT of unlinkSync is not caught: with the token held and
\* its file gone the handler's outer catch answers 500
ConfigureFinishes_FailsWhenTokenGone(r) ==
  /\ reqs[r].pc = "markReturned"
  /\ IF setupToken # 0 /\ tokenFile = 0
     THEN /\ reqs' = [reqs EXCEPT ![r] =
                 Respond([reqs[r] EXCEPT !.stages = Append(@, "invalidate")],
                         Failure(MsgPipelineFail))]
          /\ UNCHANGED <<tokenFile, tokenRemovals>>
     ELSE /\ \E unlinkOk \in BOOLEAN :
               /\ tokenFile' =
                    TokenFileAfterRemoval(setupToken, tokenFile, unlinkOk)
               /\ tokenRemovals' = IF tokenFile # 0 /\ tokenFile' = 0
                                    THEN tokenRemovals + 1 ELSE tokenRemovals
          /\ reqs' = [reqs EXCEPT ![r] =
               Respond([reqs[r] EXCEPT !.stages =
                          @ \o <<"invalidate", "classifyRestart", "respond">>],
                       Success(MsgSuccess, requiresRestart(reqs[r].config)))]
  /\ UNCHANGED <<memVars, markerFile, adminPasswordFile, wizardConfigFile,
                 appConfig, extVars, nextToken, histVars>>

\* the handler resumes after markSetupCompleted: remove the token, classify
\* the restart, answer
ConfigureFinishes(r) ==
  /\ reqs[r].pc = "markReturned"
  /\ \E unlinkOk \in BOOLEAN :
       /\ tokenFile' = TokenFileAfterRemoval(setupToken, tokenFile, unlinkOk)
       /\ tokenRemovals' = IF tokenFile # 0 /\ tokenFile' = 0
                            THEN tokenRemovals + 1 ELSE tokenRemovals
  /\ reqs' = [reqs EXCEPT ![r] =
       Respond([reqs[r] EXCEPT !.stages =
                  @ \o <<"invalidate", "classifyRestart", "respond">>],
               Success(MsgSuccess, requiresRestart(reqs[r].config)))]
  /\ UNCHANGED <<memVars, markerFile, adminPasswordFile, wizardConfigFile,
                 appConfig, extVars, nextToken>>
  /\ UNCHANGED histVars

\* ------------------------------------------------------------ reset
\* mutant: the reset handler also runs for a request the middleware
\* redirected
Reset_RunsWhenRedirected(r) ==
  /\ phase = "serving"
  /\ reqs[r].pc = "idle"
  /\ \E query, btoken \in 0..MaxToken :
       LET token == SuppliedToken(query, btoken)
           req   == [IdleReq EXCEPT !.path = "/__setup/reset",
                                    !.method = "POST",
                                    !.tokenMatches = TokenMatches(token)]
       IN IF verifySetupToken("/__setup/reset", "POST", token) = "redirect"
          THEN /\ reqs' = [reqs EXCEPT ![r] =
                             Respond(req, Redirect(TokenPagePath))]
               /\ markerFile' = FALSE
               /\ setupCompleted' = FALSE
          ELSE /\ markerFile' = FALSE
               /\ setupCompleted' = FALSE
               /\ reqs' = [reqs EXCEPT ![r] =
                             Respond(req, Success(MsgReset, FALSE))]
  /\ UNCHANGED <<phase, configSteps, setupToken, rootInstalled, tokenFile,
                 adminPasswordFile, wizardConfigFile, appConfig, extVars,
                 nextToken, tokenRemovals, histVars>>

\* mutant: the handler unlinks the marker without looking whether it exists,
\* and unlinkSync of a missing file throws
Reset_FailsWithoutMarker(r) ==
  /\ phase = "serving"
  /\ reqs[r].pc = "idle"
  /\ \E query, btoken \in 0..MaxToken, unlinkOk \in BOOLEAN :
       LET token == SuppliedToken(query, btoken)
           req   == [IdleReq EXCEPT !.path = "/__setup/reset",
                                    !.method = "POST",
                                    !.tokenMatches = TokenMatches(token)]
       IN IF verifySetupToken("/__setup/reset", "POST", token) = "redirect"
          THEN /\ reqs' = [reqs EXCEPT ![r] =
                             Respond(req, Redirect(TokenPagePath))]
               /\ UNCHANGED <<setupCompleted, markerFile>>
          ELSE IF ~markerFile \/ ~unlinkOk
          THEN /\ reqs' = [reqs EXCEPT ![r] =
                             Respond(req, Failure(MsgResetFail))]
               /\ UNCHANGED <<setupCompleted, markerFile>>
          ELSE /\ markerFile' = FALSE
               /\ setupCompleted' = FALSE
               /\ reqs' = [reqs EXCEPT ![r] =
                             Respond(req, Success(MsgReset, FALSE))]
  /\ UNCHANGED <<phase, configSteps, setupToken, rootInstalled, tokenFile,
                 adminPasswordFile, wizardConfigFile, appConfig, extVars,
                 nextToken, tokenRemovals, histVars>>

\* mutant: the handler also unlinks wizard-config.json
Reset_RemovesCommittedConfig(r) ==
  /\ phase = "serving"
  /\ reqs[r].pc = "idle"
  /\ \E query, btoken \in 0..MaxToken, unlinkOk \in BOOLEAN :
       LET token == SuppliedToken(query, btoken)
           req   == [IdleReq EXCEPT !.path = "/__setup/reset",
                                    !.method = "POST",
                                    !.tokenMatches = TokenMatches(token)]
       IN IF verifySetupToken("/__setup/reset", "POST", token) = "redirect"
          THEN /\ reqs' = [reqs EXCEPT ![r] =
                             Respond(req, Redirect(TokenPagePath))]
               /\ UNCHANGED <<setupCompleted, markerFile, wizardConfigFile>>
          ELSE IF markerFile /\ ~unlinkOk
          THEN /\ reqs' = [reqs EXCEPT ![r] =
                             Respond(req, Failure(MsgResetFail))]
               /\ UNCHANGED <<setupCompleted, markerFile, wizardConfigFile>>
          ELSE /\ markerFile' = FALSE
               /\ wizardConfigFile' = EmptyDelta
               /\ setupCompleted' = FALSE
               /\ reqs' = [reqs EXCEPT ![r] =
                             Respond(req, Success(MsgReset, FALSE))]
  /\ UNCHANGED <<phase, configSteps, setupToken, rootInstalled, tokenFile,
                 adminPasswordFile, appConfig, extVars,
                 nextToken, tokenRemovals, histVars>>

\* mutant: a successful reset attaches the root handler and the redirect
\* middleware
Reset_InstallsRootHandler(r) ==
  /\ phase = "serving"
  /\ reqs[r].pc = "idle"
  /\ \E query, btoken \in 0..MaxToken, unlinkOk \in BOOLEAN :
       LET token == SuppliedToken(query, btoken)
           req   == [IdleReq EXCEPT !.path = "/__setup/reset",
                                    !.method = "POST",
                                    !.tokenMatches = TokenMatches(token)]
       IN IF verifySetupToken("/__setup/reset", "POST", token) = "redirect"
          THEN /\ reqs' = [reqs EXCEPT ![r] =
                             Respond(req, Redirect(TokenPagePath))]
               /\ UNCHANGED <<setupCompleted, markerFile, rootInstalled>>
          ELSE IF markerFile /\ ~unlinkOk
          THEN /\ reqs' = [reqs EXCEPT ![r] =
                             Respond(req, Failure(MsgResetFail))]
               /\ UNCHANGED <<setupCompleted, markerFile, rootInstalled>>
          ELSE /\ markerFile' = FALSE
               /\ setupCompleted' = FALSE
               /\ rootInstalled' = TRUE
               /\ reqs' = [reqs EXCEPT ![r] =
                             Respond(req, Success(MsgReset, FALSE))]
  /\ UNCHANGED <<phase, configSteps, setupToken, tokenFile,
                 adminPasswordFile, wizardConfigFile, appConfig, extVars,
                 nextToken, tokenRemovals, histVars>>

\* POST /__setup/reset behind verifySetupToken; the handler has no await.
\* unlinkOk says whether unlinkSync of the marker returns or throws.
Reset(r) ==
  /\ phase = "serving"
  /\ reqs[r].pc = "idle"
  /\ \E query, btoken \in 0..MaxToken, unlinkOk \in BOOLEAN :
       LET token == SuppliedToken(query, btoken)
           req   == [IdleReq EXCEPT !.path = "/__setup/reset",
                                    !.method = "POST",
                                    !.tokenMatches = TokenMatches(token)]
       IN IF verifySetupToken("/__setup/reset", "POST", token) = "redirect"
          THEN /\ reqs' = [reqs EXCEPT ![r] =
                             Respond(req, Redirect(TokenPagePath))]
               /\ UNCHANGED <<setupCompleted, markerFile>>
          ELSE IF markerFile /\ ~unlinkOk
          THEN /\ reqs' = [reqs EXCEPT ![r] =
                             Respond(req, Failure(MsgResetFail))]
               /\ UNCHANGED <<setupCompleted, markerFile>>
          ELSE /\ markerFile' = FALSE
               /\ setupCompleted' = FALSE
               /\ reqs' = [reqs EXCEPT ![r] =
                             Respond(req, Success(MsgReset, FALSE))]
  /\ UNCHANGED <<phase, configSteps, setupToken, rootInstalled, tokenFile,
                 adminPasswordFile, wizardConfigFile, appConfig, extVars,
                 nextToken, tokenRemovals>>
  /\ UNCHANGED histVars

\* ------------------------------------------------------------ read routes
\* The GET routes of the service, and a path of the application that only
\* the redirect middleware of the service looks at.
TokenPath       == "/__setup/token"
InstructionsPath == "/__setup/reset-instructions"
WizardPath      == "/__setup"
RootPath        == "/"
StatusPath      == "/api/status"
OtherPath       == "/dashboard"
ReadPaths ==
  {TokenPath, InstructionsPath, WizardPath, RootPath, StatusPath, OtherPath}

\* res.send of a page, res.json of the status, and a request the service
\* hands on to the application with next()
Page(name)      == [status |-> 200, message |-> name, requiresRestart |-> FALSE]
Status(flag)    == [status |-> 200, message |-> JsBool(flag),
                    requiresRestart |-> FALSE]
Application     == [status |-> 0, message |-> "next", requiresRestart |-> FALSE]

\* what the service answers to a GET of path: the endpoints in the order
\* they are attached, then the redirect middleware
ReadResponse(path) ==
  CASE path = TokenPath        -> Page("token")
    [] path = InstructionsPath -> Page("reset-instructions")
    [] path = WizardPath       -> IF setupCompleted THEN Redirect("/")
                                  ELSE Page("wizard")
    [] path = RootPath         -> IF rootInstalled THEN Page("wizard")
                                  ELSE Application
    [] path = StatusPath       -> Status(setupCompleted)
    [] OTHER                   -> IF rootInstalled
                                  THEN Redirect(IF setupToken # 0
                                                THEN "/?token" ELSE "/")
                                  ELSE Application

\* mutant: the status handler reads the marker again and stores the result
ReadRoute_StatusRereadsMarker(r) ==
  /\ phase = "serving"
  /\ reqs[r].pc = "idle"
  /\ \E path \in ReadPaths :
       LET req == [IdleReq EXCEPT !.path = path, !.method = "GET"]
       IN /\ reqs' = [reqs EXCEPT ![r] = Respond(req, ReadResponse(path))]
          /\ setupCompleted' = IF path = StatusPath THEN isSetupCompleted
                                ELSE setupCompleted
  /\ UNCHANGED <<phase, configSteps, setupToken, rootInstalled, diskVars,
                 appConfig, extVars, nextToken, tokenRemovals>>
  /\ UNCHANGED histVars

\* GET of one of the read routes; the handlers have no await
ReadRoute(r) ==
  /\ phase = "serving"
  /\ reqs[r].pc = "idle"
  /\ \E path \in ReadPaths :
       LET req == [IdleReq EXCEPT !.path = path, !.method = "GET"]
       IN reqs' = [reqs EXCEPT ![r] = Respond(req, ReadResponse(path))]
  /\ UNCHANGED <<memVars, diskVars, appConfig, extVars, nextToken, tokenRemovals>>
  /\ UNCHANGED histVars

\* the response has been sent; the request is over
Release(r) ==
  /\ reqs[r].pc = "done"
  /\ reqs' = [reqs EXCEPT ![r] = IdleReq]
  /\ UNCHANGED <<memVars, diskVars, appConfig, extVars, nextToken, tokenRemovals>>
  /\ overlapped' = FALSE
  /\ UNCHANGED <<registerThrew, restartAnswer>>

\* The process exits and is started again: a new service is constructed
\* (_construct), what was in memory is gone, the files stay.
Restart ==
  /\ phase = "serving"
  /\ phase' = "constructed"
  /\ setupCompleted' = FALSE
  /\ configSteps' = <<>>
  /\ setupToken' = 0
  /\ rootInstalled' = FALSE
  /\ overlapped' = FALSE
  /\ registerThrew' = FALSE
  /\ UNCHANGED restartAnswer
  /\ reqs' = [r \in Reqs |-> IdleReq]
  /\ UNCHANGED <<diskVars, appConfig, extVars, nextToken, tokenRemovals>>

\* The keys of the configurations requiresRestart is called with: the
\* options that require a restart and keys that do not
PolicyKeys == restartRequiredOptions \cup {"unrelated_key", "__adminPassword"}

\* requiresRestart is a public method: a caller hands it a configuration
\* object and gets a boolean; the method reads its argument and logs
RequiresRestartCall ==
  /\ \E keys \in SUBSET PolicyKeys :
       LET newConfig == [k \in keys |-> "x"]
       IN restartAnswer' =
            [keys |-> keys, result |-> JsBool(requiresRestart(newConfig))]
  /\ UNCHANGED <<memVars, diskVars, appConfig, extVars, nextToken,
                 tokenRemovals, overlapped, registerThrew, reqs>>

\* ------------------------------------------------------------ specification
Next ==
  \/ InitHook
  \/ RegisterExtension
  \/ InstallRoutes
  \/ \E r \in Reqs : ConfigureArrive(r)
  \/ \E r \in Reqs : StepThrows(r)
  \/ \E r \in Reqs : StepReturns(r)
  \/ \E r \in Reqs : UpdateConfigAssigns(r)
  \/ \E r \in Reqs : UpdateConfigFails(r)
  \/ \E r \in Reqs : UpdateConfigWrites(r)
  \/ \E r \in Reqs : MarkerWriteFails(r)
  \/ \E r \in Reqs : MarkerWrites(r)
  \/ \E r \in Reqs : SidecarWriteFails(r)
  \/ \E r \in Reqs : SidecarWrites(r)
  \/ \E r \in Reqs : ConfigureFinishes(r)
  \/ \E r \in Reqs : Reset(r)
  \/ \E r \in Reqs : Release(r)

Spec == Init /\ [][Next]_vars

\* The process boots once and requiresRestart is called directly.
NextPolicy ==
  \/ InitHook
  \/ RegisterExtension
  \/ InstallRoutes
  \/ RequiresRestartCall

SpecPolicy == Init /\ [][NextPolicy]_vars

\* One client at a time submits, resets and reads while the process is
\* started again and again: what is fixed when the routes are installed.
NextLife ==
  \/ InitHook
  \/ InstallRoutes
  \/ Restart
  \/ ConfigureArrive("r1")
  \/ StepReturns("r1")
  \/ UpdateConfigAssigns("r1")
  \/ UpdateConfigFails("r1")
  \/ UpdateConfigWrites("r1")
  \/ MarkerWriteFails("r1")
  \/ MarkerWrites("r1")
  \/ SidecarWriteFails("r1")
  \/ SidecarWrites("r1")
  \/ ConfigureFinishes("r1")
  \/ Reset("r1")
  \/ ReadRoute("r1")
  \/ Release("r1")

SpecLife == Init /\ [][NextLife]_vars

\* One client submits any of the bodies, one request at a time, to the
\* default steps and the step of an extension.
HandlerStep(r) ==
  \/ StepThrows(r)
  \/ StepReturns(r)
  \/ UpdateConfigAssigns(r)
  \/ UpdateConfigFails(r)
  \/ UpdateConfigWrites(r)
  \/ MarkerWriteFails(r)
  \/ MarkerWrites(r)
  \/ SidecarWriteFails(r)
  \/ SidecarWrites(r)
  \/ ConfigureFinishes(r)

NextFields ==
  \/ InitHook
  \/ RegisterExtension
  \/ InstallRoutes
  \/ ConfigureArriveAny("r1")
  \/ HandlerStep("r1")
  \/ Reset("r1")
  \/ Release("r1")

SpecFields == Init /\ [][NextFields]_vars

\* The same, with every awaited call settling: a handler that waits for a
\* step's process or a storage call is resumed.
SpecFieldsFair == SpecFields /\ WF_vars(HandlerStep("r1"))

\* The process is started again and again while clients only reset: the
\* token and the marker across process lifetimes.
NextBoot ==
  \/ InitHook
  \/ RegisterAny
  \/ InstallRoutes
  \/ Restart
  \/ \E r \in Reqs : Reset(r)
  \/ \E r \in Reqs : Release(r)

SpecBoot == Init /\ [][NextBoot]_vars

\* Extensions register steps of any order and id, then one client submits
\* and resets, one request at a time: the registry, the order of a run and
\* the gate without concurrency.
NextRegistry ==
  \/ InitHook
  \/ RegisterStep
  \/ InstallRoutes
  \/ ConfigureArrive("r1")
  \/ StepThrows("r1")
  \/ StepReturns("r1")
  \/ UpdateConfigAssigns("r1")
  \/ UpdateConfigFails("r1")
  \/ UpdateConfigWrites("r1")
  \/ MarkerWriteFails("r1")
  \/ MarkerWrites("r1")
  \/ SidecarWriteFails("r1")
  \/ SidecarWrites("r1")
  \/ ConfigureFinishes("r1")
  \/ Reset("r1")
  \/ Release("r1")

SpecRegistry == Init /\ [][NextRegistry]_vars

\* ------------------------------------------------------------ claims
ConfigurePath == "/__setup/configure"
ResetPath     == "/__setup/reset"

IsConfigure(r) == reqs[r].path = ConfigurePath
Answered(r)    == reqs[r].pc = "done"
Succeeded(r)   == Answered(r) /\ IsConfigure(r) /\ reqs[r].resp.message = MsgSuccess
FailedWith(r, msg) ==
  Answered(r) /\ IsConfigure(r) /\ reqs[r].resp = Failure(msg)

\* the credentials that can be submitted
Credentials == {b.adminPassword : b \in Bodies} \ {""}

\* C1: a POST to the configure route whose token is missing or differs from
\* the setup token is answered with a redirect to the token page, calls no
\* step's process and enters no stage of the handler (so it commits nothing
\* and leaves completed alone).
C1_ConfigureDenied ==
  \A r \in Reqs :
    (IsConfigure(r) /\ ~reqs[r].tokenMatches) =>
      /\ reqs[r].invoked = <<>>
      /\ reqs[r].stages = <<>>
      /\ Answered(r)
      /\ reqs[r].resp = Redirect(TokenPagePath)

\* C2: once a configure submission has succeeded, the gate denies a reset
\* request whatever token value it presents (the token is gone).  Stated for
\* the state in which the submission has just been answered.
C2_TokenGoneAfterSuccess ==
  (\E r \in Reqs : Succeeded(r)) =>
    \A t \in Tokens : verifySetupToken(ResetPath, "POST", t) = "redirect"

\* C4: the submitted credential is under no key of the delta handed to
\* updateConfig nor of the persisted record of the applied configuration.
C4_CredentialNotInDelta ==
  /\ \A k \in DOMAIN wizardConfigFile : wizardConfigFile[k] \notin Credentials
  /\ \A r \in Reqs :
       reqs[r].pc \in {"pipelineReturned", "commitWrite"} =>
         \A k \in DOMAIN reqs[r].config : reqs[r].config[k] \notin Credentials

\* C7: after a submission has failed at flagCommit (markSetupCompleted
\* threw), with no other request in flight and the in-memory flag not set,
\* the configuration it committed is applied, the persisted marker does not
\* report completed either, and the token is still persisted and accepted.
C7_FlagCommitFailureLeavesUnmarked ==
  \A r \in Reqs :
    ( /\ FailedWith(r, MsgFlagFail)
      /\ \A q \in Reqs \ {r} : reqs[q].pc = "idle"
      /\ ~setupCompleted
      /\ tokenFile # 0 ) =>
        /\ ~markerFile
        /\ TokenMatches(tokenFile)
        /\ wizardConfigFile # EmptyDelta

\* C9: while the routes are installed, the token the gate compares against
\* is the persisted one, and with no token persisted no token value is
\* accepted by the gate.
C9_GateTokenIsPersistedToken ==
  phase = "serving" =>
    /\ tokenFile # 0 => setupToken = tokenFile
    /\ tokenFile = 0 => \A t \in Tokens : ~TokenMatches(t)

\* ------------------------------------------------------------ confirmed claims
\* what "completed" and "the token" are: the flag and the marker, the
\* persisted token and the token the gate holds
completedVars == <<setupCompleted, markerFile>>
tokenVars     == <<tokenFile, setupToken>>

\* the step is taken by request r
StepOf(r) == reqs'[r] # reqs[r]

\* r is answered in this step by the reset handler, with success
ResetSucceeds(r) ==
  /\ reqs[r].pc = "idle"
  /\ reqs'[r].path = ResetPath
  /\ reqs'[r].resp = Success(MsgReset, FALSE)

\* C3: the in-memory flag and the persisted marker go from true to false only
\* in a step in which the reset handler answers with success; no failing
\* write, pipeline run or token operation clears them.
C3_CompletedClearedOnlyByReset ==
  [][ ((setupCompleted /\ ~setupCompleted') \/ (markerFile /\ ~markerFile'))
        => \E r \in Reqs : ResetSucceeds(r) ]_vars

\* C3 witness: a submission has failed at flagCommit while setup was, and
\* still is, completed
C3_Witness ==
  \E r \in Reqs : FailedWith(r, MsgFlagFail) /\ setupCompleted /\ markerFile

\* r runs the pipeline in this step: the handler starts, or a step's process
\* returns or throws
PipelineStepOf(r) ==
  \/ reqs[r].pc = "idle" /\ reqs'[r].path = ConfigurePath
  \/ reqs[r].pc = "inStep" /\ StepOf(r)

\* C5: no step of a submission's pipeline run changes completed (flag and
\* marker) or the token (persisted and held by the gate), and when a step's
\* process throws the submission is answered with the pipeline failure,
\* having entered no later stage: it can be retried with the same token.
C5_StepThrowLeavesStateAlone ==
  [][ \A r \in Reqs :
        /\ PipelineStepOf(r) => UNCHANGED <<completedVars, tokenVars>>
        /\ (reqs[r].pc = "inStep" /\ reqs'[r].pc = "done") =>
             /\ reqs'[r].resp = Failure(MsgPipelineFail)
             /\ reqs'[r].stages = <<"pipeline">> ]_vars

\* C5 witness: a submission has failed in the pipeline, setup is not
\* completed and the persisted token is the one the gate accepts
C5_Witness ==
  \E r \in Reqs :
    /\ FailedWith(r, MsgPipelineFail)
    /\ ~setupCompleted /\ ~markerFile
    /\ tokenFile # 0 /\ TokenMatches(tokenFile)

\* C6: when the write of the configuration fails, the submission is answered
\* with the configCommit failure, having entered the stages pipeline and
\* configCommit only (markSetupCompleted is not called), and neither that
\* step nor the call of updateConfig before it changes completed or the token.
C6_ConfigCommitFailure ==
  [][ \A r \in Reqs :
        /\ (reqs[r].pc \in {"pipelineReturned", "commitWrite"}
              /\ reqs'[r].pc \in {"commitWrite", "done"} /\ StepOf(r))
             => UNCHANGED <<completedVars, tokenVars>>
        /\ (reqs[r].pc = "commitWrite" /\ reqs'[r].pc = "done") =>
             /\ reqs'[r].resp = Failure(MsgConfigFail)
             /\ reqs'[r].stages = <<"pipeline", "configCommit">> ]_vars

\* C6 witness: a submission has failed at configCommit, setup is not
\* completed and the persisted token is the one the gate accepts
C6_Witness ==
  \E r \in Reqs :
    /\ FailedWith(r, MsgConfigFail)
    /\ ~setupCompleted /\ ~markerFile
    /\ tokenFile # 0 /\ TokenMatches(tokenFile)

FullStages ==
  <<"pipeline", "configCommit", "flagCommit", "invalidate", "classifyRestart",
    "respond">>
Stages(n) == SubSeq(FullStages, 1, n)

\* C8: the stages a configure submission has entered are always an initial
\* part of pipeline, configCommit, flagCommit, invalidate, classifyRestart,
\* respond, each entered once and as far as the handler has come; a
\* successful submission has entered all six after calling every registered
\* step's process; one that failed at a stage has entered none after it;
\* markSetupCompleted receives the captured credential if there is one.
C8_StageOrder ==
  \A r \in Reqs :
    IsConfigure(r) =>
      LET req == reqs[r] IN
      /\ req.pc \in {"inStep", "pipelineReturned"} => req.stages = Stages(1)
      /\ req.pc = "commitWrite" => req.stages = Stages(2)
      /\ req.pc \in {"markerWrite", "sidecarWrite", "markReturned"} =>
           /\ req.stages = Stages(3)
           /\ req.sidecar = IF Truthy(req.adminPassword)
                            THEN req.adminPassword ELSE Undefined
      /\ req.pc \in {"commitWrite", "markerWrite", "sidecarWrite",
                     "markReturned"} => Len(req.invoked) = Len(configSteps)
      /\ Answered(r) =>
           \/ Succeeded(r) /\ req.stages = FullStages
                           /\ Len(req.invoked) = Len(configSteps)
           \/ FailedWith(r, MsgPipelineFail) /\ req.stages = Stages(1)
           \/ FailedWith(r, MsgConfigFail) /\ req.stages = Stages(2)
           \/ FailedWith(r, MsgFlagFail) /\ req.stages = Stages(3)

\* C8 witness: a submission with a credential has succeeded
C8_Witness ==
  \E r \in Reqs : Succeeded(r) /\ reqs[r].sidecar \in Credentials

\* C10: the persisted token disappears only in the step in which a configure
\* submission, resumed after markSetupCompleted returned, is answered with
\* success; once no token is persisted while the routes are installed none
\* is written again, and the token is deleted at most once.
C10_TokenDeletedOnlyOnSuccess ==
  [][ /\ (tokenFile # 0 /\ tokenFile' = 0) =>
           \E r \in Reqs : /\ reqs[r].pc = "markReturned"
                           /\ reqs'[r].pc = "done"
                           /\ reqs'[r].resp.message = MsgSuccess
      /\ (phase = "serving" /\ tokenFile = 0) => tokenFile' = 0
      /\ tokenRemovals' <= 1 ]_vars

\* C10 witness: the token has been deleted and the submission answered
C10_Witness ==
  tokenRemovals = 1 /\ tokenFile = 0 /\ \E r \in Reqs : Succeeded(r)

\* ------------------------------------------------------------ C11 .. C20
\* C11: when a token is persisted, installing the routes takes the persisted
\* value as the setup token and leaves the persisted token as it is (no new
\* token is generated), at every start of the process.
C11_PersistedTokenIsKept ==
  [][ (phase = "initialized" /\ phase' = "serving" /\ tokenFile # 0) =>
        /\ setupToken' = tokenFile
        /\ tokenFile' = tokenFile
        /\ nextToken' = nextToken ]_vars

\* the paths and methods of the requests the middleware can be given
Paths ==
  {"/__setup/token", "/__setup/reset-instructions", "/__setup", "/",
   "/__setup/reset", "/__setup/configure", "/api/status"}
Methods == {"GET", "POST"}

\* the decision table of the gate, its rules in order, first match wins
Classify(path, method, query, body) ==
  IF path \in {TokenPagePath, "/__setup/reset-instructions"} THEN "Exempt"
  ELSE IF path = "/__setup" /\ method = "GET" THEN "Exempt"
  ELSE IF path = "/" /\ method = "GET" /\ ~setupCompleted THEN "Exempt"
  ELSE LET supplied == IF query # 0 THEN query ELSE body
       IN IF supplied # 0 /\ supplied = setupToken THEN "Authorized"
          ELSE "Denied"

\* C12: in every state, for every path, method and pair of query and body
\* tokens, the middleware lets the request pass exactly when the decision
\* table says Exempt or Authorized and redirects it exactly when the table
\* says Denied.
C12_GateFollowsDecisionTable ==
  \A path \in Paths, method \in Methods, query \in 0..MaxToken,
     body \in 0..MaxToken :
    verifySetupToken(path, method, SuppliedToken(query, body)) =
      IF Classify(path, method, query, body) = "Denied"
      THEN "redirect" ELSE "next"

\* C12 witness: the middleware has let a reset request with the setup token
\* pass, after a setup that was completed: the handler has reset it
C12_Witness ==
  /\ ~setupCompleted /\ ~markerFile
  /\ wizardConfigFile # EmptyDelta
  /\ \E r \in Reqs :
       /\ Answered(r) /\ reqs[r].path = ResetPath
       /\ reqs[r].tokenMatches
       /\ reqs[r].resp = Success(MsgReset, FALSE)

RECURSIVE IdsOf(_)
IdsOf(registry) ==
  IF registry = <<>> THEN <<>>
  ELSE <<registry[1].id>> \o IdsOf(Tail(registry))

\* step a comes before step b by declared order, ties by registration
Precedes(a, b) ==
  \/ a.declared < b.declared
  \/ a.declared = b.declared /\ a.seq < b.seq

\* C14: the registry is in ascending order of the orders the steps were
\* registered with, steps of equal order in the order of their registration,
\* and a run has called the processes of the steps in that order.
C14_RegistryInDeclaredOrder ==
  /\ \A i, j \in 1..Len(configSteps) :
       i < j => Precedes(configSteps[i], configSteps[j])
  /\ \A r \in Reqs :
       (IsConfigure(r) /\ ~Answered(r)) =>
         reqs[r].invoked =
           SubSeq(IdsOf(configSteps), 1, Len(reqs[r].invoked))

\* C15: the ids of the registry are unique (registering an id again
\* replaces its entry), and no run calls two processes for one id.
C15_ReRegistrationReplaces ==
  /\ \A i, j \in 1..Len(configSteps) :
       i # j => configSteps[i].id # configSteps[j].id
  /\ \A r \in Reqs : \A i, j \in 1..Len(reqs[r].invoked) :
       i # j => reqs[r].invoked[i] # reqs[r].invoked[j]

\* C16: when the process of a step throws, the run is over in that step:
\* the processes called are those of the steps up to the throwing one and no
\* other is called afterwards, what the earlier steps returned is dropped
\* and reaches neither the live configuration nor its persisted record, and
\* the submission is answered with the failure of the pipeline.
C16_ThrowAbortsRun ==
  [][ \A r \in Reqs :
        /\ (reqs[r].pc = "inStep" /\ reqs'[r].pc = "done") =>
             /\ reqs[r].invoked = SubSeq(IdsOf(configSteps), 1, reqs[r].idx)
             /\ reqs'[r].invoked = reqs[r].invoked
             /\ reqs'[r].config = EmptyDelta
             /\ reqs'[r].resp = Failure(MsgPipelineFail)
             /\ UNCHANGED <<appConfig, wizardConfigFile>>
        /\ reqs[r].pc = "done" =>
             reqs'[r] = reqs[r] \/ reqs'[r] = IdleReq ]_vars

\* C16 witness: a run was aborted by its second step, after the first had
\* returned its delta, with later steps left, and nothing is committed
C16_Witness ==
  \E r \in Reqs :
    /\ FailedWith(r, MsgPipelineFail)
    /\ Len(reqs[r].invoked) = 2
    /\ Len(configSteps) > 2
    /\ appConfig = EmptyDelta /\ wizardConfigFile = EmptyDelta

\* what the steps of a registry return for the submitted fields, merged in
\* the order of the registry
RECURSIVE MergedDelta(_, _)
MergedDelta(registry, data) ==
  IF registry = <<>> THEN EmptyDelta
  ELSE Merge(MergedDelta(SubSeq(registry, 1, Len(registry) - 1), data),
             StepConfig(registry[Len(registry)], data))

\* how often a stage occurs in the stages a submission has entered
Occurrences(stages, stage) ==
  Cardinality({i \in 1..Len(stages) : stages[i] = stage})

\* C17: a submission enters configCommit at most once; when it has, the
\* process of every registered step was called, in order, and while
\* updateConfig runs the delta it was given holds, for every key some step
\* returned, the value of the last step that returned it.
C17_CommitOnceWithFullDelta ==
  \A r \in Reqs :
    IsConfigure(r) =>
      /\ Occurrences(reqs[r].stages, "configCommit") <= 1
      /\ Occurrences(reqs[r].stages, "configCommit") = 1 =>
           reqs[r].invoked = IdsOf(configSteps)
      /\ reqs[r].pc = "commitWrite" =>
           LET full == MergedDelta(configSteps, reqs[r].body) IN
           \A k \in DOMAIN full :
             k \in DOMAIN reqs[r].config /\ reqs[r].config[k] = full[k]

\* C17 witness: updateConfig runs with the delta of four steps, the
\* extension's among them
C17_Witness ==
  \E r \in Reqs :
    /\ reqs[r].pc = "commitWrite"
    /\ Len(configSteps) = 4
    /\ DOMAIN reqs[r].config =
         {"experimental_no_subdomain", "unrelated_key", "domain",
          "__adminPassword"}

\* C18: when the two submissions being handled were in their handlers at
\* the same time: once both have come back from markSetupCompleted the flag
\* and the marker are set; a submission that has reached the removal of the
\* token is answered with success, also when the file was already gone; the
\* token was deleted at most once, and when both are answered and it was
\* deleted no token is persisted.
C18_ConcurrentSubmissionsBothSucceed ==
  overlapped =>
    /\ (\A r \in Reqs : reqs[r].pc = "markReturned" \/ Succeeded(r)) =>
         setupCompleted /\ markerFile
    /\ \A r \in Reqs :
         (Answered(r) /\ Occurrences(reqs[r].stages, "invalidate") > 0) =>
           Succeeded(r) /\ reqs[r].stages = FullStages
    /\ tokenRemovals <= 1
    /\ ((\A r \in Reqs : Succeeded(r)) /\ tokenRemovals = 1) => tokenFile = 0

\* C18 witness: two submissions with the valid token, in their handlers at
\* the same time, have both succeeded; setup is completed and the token was
\* deleted once
C18_Witness ==
  /\ overlapped
  /\ \A r \in Reqs : Succeeded(r) /\ reqs[r].tokenMatches
  /\ setupCompleted /\ markerFile
  /\ tokenFile = 0 /\ tokenRemovals = 1

\* C19: while the routes are installed and no call of markSetupCompleted is
\* in progress, the in-memory flag equals the presence of the marker.
C19_FlagMirrorsMarker ==
  ( /\ phase = "serving"
    /\ \A r \in Reqs : reqs[r].pc \notin {"markerWrite", "sidecarWrite"} ) =>
      setupCompleted = markerFile

\* C20: once markSetupCompleted has written the marker and goes on to write
\* the credential, the call returns success and the flag is set, whether or
\* not the write of the credential succeeds.
C20_SidecarWriteIsBestEffort ==
  [][ \A r \in Reqs :
        (reqs[r].pc = "sidecarWrite" /\ StepOf(r)) =>
          /\ reqs'[r].pc = "markReturned"
          /\ setupCompleted' ]_vars

\* C21: when the adminPassword step is called with a password and the
\* credential is left as it was (updateAdminPassword threw), the step
\* returns: the run is not answered, the delta keeps every value it had and
\* gains no key of the step, and the run goes on to the next step or returns.
C21_FailedCredentialUpdateIsSwallowed ==
  [][ \A r \in Reqs :
        ( /\ reqs[r].pc = "inStep"
          /\ reqs[r].step.proc = "adminPassword"
          /\ Truthy(reqs[r].body.adminPassword)
          /\ StepOf(r)
          /\ adminCredential' = adminCredential ) =>
            /\ reqs'[r].pc \in {"inStep", "pipelineReturned"}
            /\ reqs'[r].resp = NoResp
            /\ reqs'[r].idx = reqs[r].idx + 1
            /\ DOMAIN reqs'[r].config \ {"__adminPassword"} = DOMAIN reqs[r].config
            /\ \A k \in DOMAIN reqs[r].config :
                 reqs'[r].config[k] = reqs[r].config[k] ]_vars

\* C21 witness: a submission with a password is answered with success and
\* setup is completed although no credential was ever updated
C21_Witness ==
  \E r \in Reqs :
    /\ Succeeded(r)
    /\ reqs[r].sidecar = "secretpw"
    /\ adminCredential = Undefined /\ passwordLogFile = Undefined
    /\ setupCompleted /\ markerFile
    /\ wizardConfigFile # EmptyDelta

\* r is answered in this step by the reset handler itself: the middleware
\* let the request through
ResetHandled(r) ==
  /\ reqs[r].pc = "idle"
  /\ reqs'[r].path = ResetPath
  /\ reqs'[r].resp.status # 302

\* C22: a reset answered with success leaves no marker, so that
\* isSetupCompleted returns false after it, and the flag false; a reset that
\* is handled while there is no marker is answered with success.
C22_ResetIsIdempotent ==
  [][ \A r \in Reqs :
        /\ ResetSucceeds(r) => ~isSetupCompleted' /\ ~setupCompleted'
        /\ (ResetHandled(r) /\ ~markerFile) => ResetSucceeds(r) ]_vars

\* C22 witness: setup was completed, and two resets, neither released yet,
\* have both been answered with success; no marker is left
C22_Witness ==
  /\ \A r \in Reqs :
       /\ Answered(r)
       /\ reqs[r].path = ResetPath
       /\ reqs[r].resp = Success(MsgReset, FALSE)
  /\ wizardConfigFile # EmptyDelta /\ tokenRemovals > 0
  /\ ~isSetupCompleted /\ ~setupCompleted

\* C23: the last direct call of requiresRestart returned a boolean, true if
\* and only if one of domain, experimental_no_subdomain, http_port,
\* api_base_url and origin was a key of its argument (false for no key and
\* for other keys only), and the call changed nothing but the record of its
\* answer.
C23_RestartIffRestartKey ==
  /\ [](restartAnswer # NoAnswer =>
         /\ restartAnswer.result \in {JsTrue, JsFalse}
         /\ restartAnswer.result = JsTrue <=>
              restartAnswer.keys \cap
                {"domain", "experimental_no_subdomain", "http_port",
                 "api_base_url", "origin"} # {})
  /\ [][ restartAnswer' # restartAnswer =>
           UNCHANGED <<memVars, diskVars, appConfig, extVars, nextToken,
                       tokenRemovals, reqs>> ]_vars

\* C23 witness: requiresRestart was called with the last option of the list
\* next to an unrelated key and returned true
C23_Witness ==
  /\ restartAnswer.keys = {"origin", "unrelated_key"}
  /\ restartAnswer.result = JsTrue
  /\ phase = "serving"

\* C24: a call of registerConfigStep with a definition that lacks id, title,
\* template or process throws, and the registry holds the same steps in the
\* same order after it as before.
C24_RefusedStepLeavesRegistry ==
  [][ registerThrew' => configSteps' = configSteps ]_vars

\* C24 witness: an extension's definition was refused and the registry
\* holds the three default steps in their order
C24_Witness ==
  /\ registerThrew
  /\ phase = "initialized"
  /\ IdsOf(configSteps) = <<"subdomain", "domain", "adminPassword">>

\* C25: the processes a run has called are the first steps of the registry,
\* one call each in the registry's order; while a step is in progress it is
\* the last one called and every call before it has returned; a run for
\* which markSetupCompleted was called, and one that succeeded, has called
\* the process of every registered step exactly once.
C25_StepsRunOneAfterAnother ==
  \A r \in Reqs :
    IsConfigure(r) =>
      LET req == reqs[r] IN
      /\ Len(req.invoked) <= Len(configSteps)
      /\ req.invoked = SubSeq(IdsOf(configSteps), 1, Len(req.invoked))
      /\ req.pc = "inStep" =>
           /\ Len(req.invoked) = req.idx
           /\ req.step = configSteps[req.idx]
      /\ req.pc \notin {"inStep", "done", "idle"} => req.step = NoStep
      /\ ( \/ req.pc \in {"markerWrite", "sidecarWrite", "markReturned"}
           \/ Occurrences(req.stages, "flagCommit") > 0
           \/ Succeeded(r) ) => req.invoked = IdsOf(configSteps)

\* C25 witness: the marker is being written for a run over four steps, the
\* extension's step between the default ones
C25_Witness ==
  \E r \in Reqs :
    /\ reqs[r].pc = "sidecarWrite"
    /\ markerFile
    /\ reqs[r].invoked = <<"subdomain", "extra", "domain", "adminPassword">>

\* C26: the configuration processConfigSteps returns is the merge, in the
\* order of the registry, of what the steps returned for the submitted
\* fields: it has the keys some step returned and no other, each with the
\* value of the last step that returned it.
C26_ReturnedDeltaIsMergeOfSteps ==
  \A r \in Reqs :
    reqs[r].pc = "pipelineReturned" =>
      reqs[r].config = MergedDelta(configSteps, reqs[r].body)

\* C27: the step in which a reset request is answered changes nothing but
\* the marker, the flag and the request: the persisted token and the token
\* the gate holds, the committed configuration (on disk and live), the
\* credential record, the registry and the token generator stay as they are.
C27_ResetTouchesOnlyCompletion ==
  [][ \A r \in Reqs :
        (reqs[r].pc = "idle" /\ reqs'[r].path = ResetPath) =>
          /\ UNCHANGED <<tokenFile, setupToken, nextToken, tokenRemovals>>
          /\ UNCHANGED <<wizardConfigFile, appConfig>>
          /\ UNCHANGED <<adminPasswordFile, extVars>>
          /\ UNCHANGED <<configSteps, phase, rootInstalled>> ]_vars

\* C27 witness: a reset after a completed setup was answered with success;
\* the committed configuration, the credential record, the gate's token and
\* a registry of four steps are there
C27_Witness ==
  \E r \in Reqs :
    /\ Answered(r) /\ reqs[r].path = ResetPath
    /\ reqs[r].resp = Success(MsgReset, FALSE)
    /\ ~markerFile /\ ~setupCompleted
    /\ "domain" \in DOMAIN wizardConfigFile /\ "domain" \in DOMAIN appConfig
    /\ adminPasswordFile \in Credentials
    /\ setupToken # 0
    /\ Len(configSteps) = 4

\* the registry holds the three default steps and no other
DefaultRegistry ==
  IdsOf(configSteps) = <<"subdomain", "domain", "adminPassword">>

\* C28: with the default steps, a submission of subdomainBehavior
\* "disabled", domainName "example.com" and adminPassword "secretpw" under
\* the valid token that was answered with success committed a configuration
\* with experimental_no_subdomain true and domain "example.com", reported
\* that a restart is required, left setup completed, and left no token that
\* the gate accepts.
C28_EndToEndDefaultSteps ==
  \A r \in Reqs :
    ( /\ Succeeded(r)
      /\ reqs[r].tokenMatches
      /\ reqs[r].sidecar = "secretpw"
      /\ DefaultRegistry ) =>
        /\ Get(wizardConfigFile, "experimental_no_subdomain") = JsTrue
        /\ Get(wizardConfigFile, "domain") = "example.com"
        /\ reqs[r].resp = Success(MsgSuccess, TRUE)
        /\ setupCompleted /\ isSetupCompleted
        /\ \A t \in Tokens : ~TokenMatches(t)

\* C29: a configure submission that arrives while setup is completed (the
\* flag is set and the marker exists) calls no step's process and enters no
\* stage of the handler, so it commits nothing.
C29_CompletedSetupIsNotRerun ==
  [][ \A r \in Reqs :
        ( /\ reqs[r].pc = "idle"
          /\ reqs'[r].path = ConfigurePath
          /\ setupCompleted /\ isSetupCompleted ) =>
            /\ reqs'[r].invoked = <<>>
            /\ reqs'[r].stages = <<>> ]_vars

\* the live configuration holds every key of the delta with the delta's value
HoldsDelta(config, delta) ==
  \A k \in DOMAIN delta : k \in DOMAIN config /\ config[k] = delta[k]

\* C30: updateConfig assigns the delta to the live configuration in the step
\* in which it is called, with wizard-config.json as it was; when the write
\* of wizard-config.json then fails, the submission is answered with the
\* configCommit failure, the file is as it was and the live configuration
\* still holds every value of the delta.
C30_LiveConfigKeptOnWriteFailure ==
  [][ \A r \in Reqs :
        /\ (reqs[r].pc = "pipelineReturned" /\ StepOf(r)) =>
             /\ reqs'[r].pc = "commitWrite"
             /\ appConfig' = Merge(appConfig, reqs[r].config)
             /\ HoldsDelta(appConfig', reqs[r].config)
             /\ wizardConfigFile' = wizardConfigFile
        /\ ( /\ reqs[r].pc = "commitWrite"
             /\ reqs'[r].resp = Failure(MsgConfigFail) ) =>
               /\ wizardConfigFile' = wizardConfigFile
               /\ HoldsDelta(appConfig, reqs[r].config)
               /\ HoldsDelta(appConfig', reqs[r].config) ]_vars

\* C30 witness: on a fresh installation a submission has failed at
\* configCommit: nothing is committed on disk, the live configuration has
\* the submitted domain
C30_Witness ==
  \E r \in Reqs :
    /\ FailedWith(r, MsgConfigFail)
    /\ wizardConfigFile = EmptyDelta
    /\ Get(appConfig, "domain") = "example.com"
    /\ Get(appConfig, "experimental_no_subdomain") = JsTrue

\* C31: the root handler and the redirect middleware exist exactly when
\* setup was not completed in the step that installed the routes; no step of
\* the serving process (a successful submission and a reset among them)
\* changes that; a GET of the root is answered by the wizard and a GET of
\* another path is redirected exactly when they exist.
C31_RootHandlerFixedAtInstall ==
  [][ /\ (phase = "initialized" /\ phase' = "serving") =>
           rootInstalled' = ~setupCompleted
      /\ (phase = "serving" /\ phase' = "serving") =>
           rootInstalled' = rootInstalled
      /\ \A r \in Reqs :
           (reqs[r].pc = "idle" /\ reqs'[r].path \in {RootPath, OtherPath}) =>
             (reqs'[r].resp = Application) = ~rootInstalled ]_vars

\* C31 witness: the process was started with setup completed and was reset
\* since: setup is not completed, and a GET of another path was handed on to
\* the application instead of being redirected to the wizard
C31_Witness ==
  \E r \in Reqs :
    /\ phase = "serving"
    /\ ~setupCompleted /\ ~markerFile
    /\ ~rootInstalled
    /\ Answered(r) /\ reqs[r].path = OtherPath
    /\ reqs[r].resp = Application

\* a step with id adminPassword is among the first n steps of the registry
AdminStepAmong(n) ==
  \E i \in 1..n : i <= Len(configSteps) /\ configSteps[i].id = "adminPassword"

\* C32: during a run the captured credential is the submitted adminPassword
\* when a step with id adminPassword has returned and the field is
\* non-empty (white space included), and none otherwise, whatever the
\* credential update did; the returned delta carries it as __adminPassword,
\* markSetupCompleted is called with it, and once markSetupCompleted has
\* returned the credential record holds it.
C32_SidecarIsSubmittedPassword ==
  \A r \in Reqs :
    IsConfigure(r) /\ ~Answered(r) =>
      LET req      == reqs[r]
          password == req.body.adminPassword
          expected(ran) == IF ran /\ Truthy(password) THEN password ELSE Null
      IN
      /\ req.pc = "inStep" => req.adminPassword = expected(AdminStepAmong(req.idx - 1))
      /\ req.pc # "inStep" =>
           /\ req.adminPassword = expected(AdminStepAmong(Len(configSteps)))
           /\ Get(req.config, "__adminPassword") =
                (IF Truthy(req.adminPassword) THEN req.adminPassword ELSE Undefined)
      /\ req.pc \in {"markerWrite", "sidecarWrite", "markReturned"} =>
           req.sidecar = Get(req.config, "__adminPassword")
      /\ (req.pc = "markReturned" /\ Truthy(req.sidecar)) =>
           adminPasswordFile = req.sidecar

\* C32 witness: a password of white space only, for which the credential
\* update is skipped, was captured and is the credential record
C32_Witness ==
  \E r \in Reqs :
    /\ reqs[r].pc = "markReturned"
    /\ reqs[r].body.adminPassword = " "
    /\ reqs[r].sidecar = " "
    /\ adminPasswordFile = " "
    /\ adminCredential = Undefined

\* C33: while the routes are installed and the gate holds no token, the
\* middleware redirects every request the decision table does not exempt,
\* whatever token it supplies, a missing one included, and every reset and
\* configure request is answered with the redirect to the token page without
\* a step's process being called.
C33_NoTokenDeniesAll ==
  (phase = "serving" /\ setupToken = 0) =>
    /\ \A path \in Paths, method \in Methods, query \in 0..MaxToken,
          body \in 0..MaxToken :
         Classify(path, method, query, body) # "Exempt" =>
           verifySetupToken(path, method, SuppliedToken(query, body)) = "redirect"
    /\ \A r \in Reqs :
         reqs[r].path \in {ResetPath, ConfigurePath} =>
           /\ reqs[r].resp = Redirect(TokenPagePath)
           /\ reqs[r].invoked = <<>>

\* C34: a configure request that is being handled has no response yet and
\* one that was answered has exactly one; with every awaited call settling,
\* a configure request that is being handled is eventually answered, with
\* success or with a failure.
C34_ExactlyOneResponse ==
  /\ [](\A r \in Reqs :
          IsConfigure(r) =>
            reqs[r].responses = (IF Answered(r) THEN 1 ELSE 0))
  /\ \A r \in Reqs :
       (IsConfigure(r) /\ ~Answered(r)) ~>
         (Answered(r) /\ reqs[r].responses = 1
                      /\ reqs[r].resp.status \in {200, 500})

\* C34 witness: a submission that went through all six stages has its one
\* response
C34_Witness ==
  \E r \in Reqs :
    /\ IsConfigure(r) /\ Answered(r)
    /\ reqs[r].stages = FullStages
    /\ reqs[r].responses = 1
    /\ Len(reqs[r].invoked) = 4

\* C35: with the three default steps and no other, the delta a run returns
\* has the keys experimental_no_subdomain and domain whatever was submitted,
\* and every submission answered with success reports that a restart is
\* required.
C35_DefaultStepsAlwaysRestart ==
  DefaultRegistry =>
    \A r \in Reqs :
      /\ reqs[r].pc \in {"pipelineReturned", "commitWrite", "markerWrite",
                         "sidecarWrite", "markReturned"} =>
           {"experimental_no_subdomain", "domain"} \subseteq DOMAIN reqs[r].config
      /\ Succeeded(r) => reqs[r].resp = Success(MsgSuccess, TRUE)

\* C35 witness: a body without any field was submitted to the default steps
\* (the committed file has subdomains not disabled and no domain) and the
\* answer is success with a restart required
C35_Witness ==
  \E r \in Reqs :
    /\ DefaultRegistry
    /\ Succeeded(r)
    /\ reqs[r].resp.requiresRestart
    /\ wizardConfigFile = [k \in {"experimental_no_subdomain"} |-> JsFalse]

\* C36: the step in which a GET of the token page, the reset instructions,
\* the wizard entry, the root or the status route is answered changes
\* neither the flag nor the marker, the token (held and persisted, and the
\* generator), the configuration (live and committed), the credential record
\* or the registry; the status route answers with the in-memory flag.
C36_ReadRoutesChangeNothing ==
  [][ \A r \in Reqs :
        ( /\ reqs[r].pc = "idle"
          /\ reqs'[r].path \in
               {TokenPath, InstructionsPath, WizardPath, RootPath, StatusPath} ) =>
            /\ UNCHANGED <<setupCompleted, markerFile>>
            /\ UNCHANGED <<setupToken, tokenFile, nextToken, tokenRemovals>>
            /\ UNCHANGED <<appConfig, wizardConfigFile, adminPasswordFile>>
            /\ UNCHANGED <<configSteps, rootInstalled, phase>>
            /\ reqs'[r].path = StatusPath =>
                 reqs'[r].resp = Status(setupCompleted) ]_vars

\* C36 witness: the status route has reported setup as not completed, which
\* is the in-memory flag, while the marker exists
C36_Witness ==
  \E r \in Reqs :
    /\ Answered(r) /\ reqs[r].path = StatusPath
    /\ reqs[r].resp = Status(FALSE)
    /\ ~setupCompleted /\ markerFile

====
